---- MODULE Spec2Model ----
(***************************************************************************)
(* Model of the two CSV migration scripts of juju-swift:                   *)
(*   migrate_sessions.py            (add-variant: adds action,is_milestone) *)
(*   migrate_remove_milestone_text.py (drop-variant: removes milestone_text)*)
(*                                                                         *)
(* A file on disk is a sequence of physical lines.  A line is a sequence   *)
(* of cells; a cell is the text of one field (v) and whether it is written *)
(* between double quotes (q).  The empty sequence is the empty line.       *)
(* Field values are drawn from a small alphabet of strings; str.strip and  *)
(* str.lower are tabulated over that alphabet.                             *)
(*                                                                         *)
(* A data file "<n>-data.csv" is named by the integer n >= 1; the integer  *)
(* 0 names "notes.csv", a CSV file the glob '*-data.csv' does not match.   *)
(***************************************************************************)
EXTENDS Integers, Sequences, FiniteSets, TLC

\* ------------------------------------------------------------------ bounds
MaxFiles == 2      \* data files in the directory
MaxRows == 1       \* lines after the header line of a generated table
MaxCols == 2       \* columns of a generated header, fields of a generated row
MaxBlank == 1      \* leading blank lines

\* ------------------------------------------------------- strings and cells
\* Let(e, F) is F(e): the value of e is computed once and then named, as an
\* assignment to a local variable does
Let(e, F(_)) == CHOOSE y \in {F(x) : x \in {e}} : TRUE

None == "<None>"   \* Python's None (DictReader restval, failed lookup)

\* str.strip() over the alphabet of the model
Strip(s) ==
    CASE s = " " -> ""
      [] s = " a,b " -> "a,b"
      [] OTHER -> s

\* str.lower() over the alphabet of the model
Lower(s) ==
    CASE s = "Milestone_Text" -> "milestone_text"
      [] OTHER -> s

\* csv.writer, QUOTE_MINIMAL: a field holding the delimiter is quoted
NeedsQuote(s) == s \in {" a,b ", "a,b"}

\* csv.reader on one physical line: the fields, quotes removed
ReadRow(line) == [i \in 1..Len(line) |-> line[i].v]

\* csv.reader over a whole file (drop-variant): one row per line, an empty
\* line gives the empty row
ReadAll(lines) == [i \in 1..Len(lines) |-> ReadRow(lines[i])]

\* csv.writer.writerow: None is written as '', a row made of one empty field
\* is written as "" so that it does not read back as an empty line
WriteRow(row) ==
    [i \in 1..Len(row) |->
        LET s == IF row[i] = None THEN "" ELSE row[i]
        IN  [v |-> s, q |-> NeedsQuote(s) \/ (Len(row) = 1 /\ s = "")]]

WriteAll(rows) == [i \in 1..Len(rows) |-> WriteRow(rows[i])]

\* not line.strip(): the text of the line is empty or whitespace only
IsBlankLine(line) ==
    \/ Len(line) = 0
    \/ Len(line) = 1 /\ ~line[1].q /\ Strip(line[1].v) = ""

\* ------------------------------------------------- clean_csv_file_content
RECURSIVE LeadingEmpty(_)
LeadingEmpty(lines) ==
    IF lines = <<>> THEN 0
    ELSE IF IsBlankLine(Head(lines)) THEN 1 + LeadingEmpty(Tail(lines))
    ELSE 0

clean_csv_file_content(lines) ==
    LET n == LeadingEmpty(lines)
    IN  IF n = Len(lines)
        THEN [cleaned_lines |-> <<>>, leading_empty_lines |-> n]
        ELSE [cleaned_lines |-> SubSeq(lines, n + 1, Len(lines)),
              leading_empty_lines |-> n]

\* ------------------------------------------------------------ dictionaries
\* A dict is the sequence of its (key, val) items in insertion order.
HasKey(d, k) == \E i \in 1..Len(d) : d[i].key = k

DictSet(d, k, x) ==
    IF HasKey(d, k)
    THEN [i \in 1..Len(d) |-> IF d[i].key = k THEN [key |-> k, val |-> x] ELSE d[i]]
    ELSE Append(d, [key |-> k, val |-> x])

DictGet(d, k, default) ==
    IF HasKey(d, k) THEN d[CHOOSE i \in 1..Len(d) : d[i].key = k].val ELSE default

\* csv.DictReader.__next__ for one non-empty row: dict(zip(fieldnames, row)),
\* then restval None for the missing fields; the fields beyond the header are
\* stored as a list under the key None (restkey), held here in "rest"
RECURSIVE ZipInto(_, _, _, _)
ZipInto(d, fieldnames, row, i) ==
    IF i > Len(fieldnames) THEN d
    ELSE Let(DictSet(d, fieldnames[i], IF i <= Len(row) THEN row[i] ELSE None),
             LAMBDA d2 : ZipInto(d2, fieldnames, row, i + 1))

DictReaderRow(fieldnames, row) ==
    [items |-> ZipInto(<<>>, fieldnames, row, 1),
     rest  |-> IF Len(row) > Len(fieldnames)
               THEN SubSeq(row, Len(fieldnames) + 1, Len(row))
               ELSE <<>>]

\* list(csv.DictReader(f, fieldnames=...)): with fieldnames given, every line
\* of f is a data row; rows that read as [] are skipped
RECURSIVE DictReaderRows(_, _)
DictReaderRows(fieldnames, lines) ==
    IF lines = <<>> THEN <<>>
    ELSE Let(ReadRow(Head(lines)), LAMBDA row :
         Let(DictReaderRows(fieldnames, Tail(lines)), LAMBDA tl :
             IF row = <<>> THEN tl ELSE <<DictReaderRow(fieldnames, row)>> \o tl))

\* ------------------------------------------------------------ add-variant
Range(s) == {s[i] : i \in 1..Len(s)}

\* 'action' in original_header_row and 'is_milestone' in original_header_row
AlreadyMigratedCamel(header) ==
    "action" \in Range(header) /\ "isMilestone" \in Range(header)
AlreadyMigrated(header) ==
    "action" \in Range(header) /\ "is_milestone" \in Range(header)

\* updated_fieldnames
UpdatedFieldnames(header) == header \o <<"action", "is_milestone">>

\* the second read of the file: seek(0), then next(f) leading_empty_lines times
RowPassNoSkip(lines, leading) == lines
RowPassLines(lines, leading) == SubSeq(lines, leading + 1, Len(lines))

\* for key in row.keys(): if key.lower() == 'milestone_text': ... break
\* The key None of a row longer than the header comes last and has no lower().
RECURSIVE FindMilestoneKey(_, _)
FindMilestoneKey(items, i) ==
    IF i > Len(items) THEN 0
    ELSE IF Lower(items[i].key) = "milestone_text" THEN i
    ELSE FindMilestoneKey(items, i + 1)

LookupMilestone(row) ==
    LET i == FindMilestoneKey(row.items, 1)
    IN  IF i > 0 THEN [raised |-> FALSE, val |-> row.items[i].val]
        ELSE [raised |-> row.rest # <<>>, val |-> None]

\* new_row = row.copy(); new_row['action'] = ...; new_row['is_milestone'] = ...
MigrateRow(row) ==
    Let(LookupMilestone(row).val, LAMBDA milestone_text :
    Let(milestone_text # None /\ milestone_text # "" /\ Strip(milestone_text) # "",
        LAMBDA truthy :
    Let(DictSet(row.items, "action", IF truthy THEN Strip(milestone_text) ELSE ""),
        LAMBDA new_row :
        [items |-> DictSet(new_row, "is_milestone", IF truthy THEN "1" ELSE "0"),
         rest  |-> row.rest])))

\* csv.DictWriter._dict_to_list: keys that are not fieldnames raise ValueError
WrongFields(row, fieldnames) ==
    \/ row.rest # <<>>
    \/ \E i \in 1..Len(row.items) : row.items[i].key \notin Range(fieldnames)

DictToList(row, fieldnames) ==
    [i \in 1..Len(fieldnames) |-> DictGet(row.items, fieldnames[i], "")]

\* writer.writerows(migrated_rows): rows are written one by one until one raises
RECURSIVE WriteDictRows(_, _)
WriteDictRows(rows, fieldnames) ==
    IF rows = <<>> THEN [lines |-> <<>>, raised |-> FALSE]
    ELSE IF WrongFields(Head(rows), fieldnames) THEN [lines |-> <<>>, raised |-> TRUE]
    ELSE Let(WriteDictRows(Tail(rows), fieldnames), LAMBDA tl :
             [lines  |-> <<WriteRow(DictToList(Head(rows), fieldnames))>> \o tl.lines,
              raised |-> tl.raised])

Unchanged(lines, outcome) ==
    [content |-> lines, outcome |-> outcome, openedW |-> FALSE, returned |-> FALSE]

\* One iteration of the loop of migrate_sessions over csv_files, on a file
\* holding "lines" with permission p ("rw", "r" read-only, "none").
migrate_sessions_file(lines, p) ==
    IF p = "none" THEN Unchanged(lines, "failed")
    ELSE
    Let(clean_csv_file_content(lines), LAMBDA c :
    IF c.cleaned_lines = <<>> THEN Unchanged(lines, "skipped")
    ELSE
    Let(ReadRow(c.cleaned_lines[1]), LAMBDA original_header_row :
    IF AlreadyMigrated(original_header_row) THEN Unchanged(lines, "skipped")
    ELSE
    Let(UpdatedFieldnames(original_header_row), LAMBDA updated_fieldnames :
    Let(DictReaderRows(original_header_row,
                       RowPassLines(lines, c.leading_empty_lines)),
        LAMBDA rows_to_process :
    IF rows_to_process = <<>> THEN Unchanged(lines, "skipped")
    ELSE IF \E i \in 1..Len(rows_to_process) : LookupMilestone(rows_to_process[i]).raised
    THEN Unchanged(lines, "failed")
    ELSE
    Let([i \in 1..Len(rows_to_process) |-> MigrateRow(rows_to_process[i])],
        LAMBDA migrated_rows :
    IF p # "rw" THEN Unchanged(lines, "failed")
    ELSE
    Let(WriteDictRows(migrated_rows, updated_fieldnames), LAMBDA w :
         [content  |-> <<WriteRow(updated_fieldnames)>> \o w.lines,
          outcome  |-> IF w.raised THEN "failed" ELSE "migrated",
          openedW  |-> TRUE,
          returned |-> FALSE]))))))

\* ----------------------------------------------------------- drop-variant
Min(a, b) == IF a < b THEN a ELSE b

\* Python's s[a:b] (0-based, half-open, clamped)
PySlice(s, a, b) == SubSeq(s, Min(a, Len(s)) + 1, Min(b, Len(s)))

\* header.index('milestone_text'), 0-based
HeaderIndex(header, name) ==
    (CHOOSE i \in 1..Len(header) :
        header[i] = name /\ \A j \in 1..(i - 1) : header[j] # name) - 1

\* header[:milestone_text_idx] + header[milestone_text_idx+1:]
NewHeaderKept(header, idx) == header
NewHeader(header, idx) ==
    PySlice(header, 0, idx) \o PySlice(header, idx + 1, Len(header))

\* the body of the loop over rows[1:]
DropFieldTruncate(row, idx) ==
    IF Len(row) > idx THEN PySlice(row, 0, idx) ELSE row
DropField(row, idx) ==
    IF Len(row) > idx
    THEN PySlice(row, 0, idx) \o PySlice(row, idx + 1, Len(row))
    ELSE row

migrate_csv_file(lines, p) ==
    IF p = "none" THEN Unchanged(lines, "failed")
    ELSE
    Let(ReadAll(lines), LAMBDA rows :
    IF rows = <<>> THEN Unchanged(lines, "skipped")
    ELSE
    Let(rows[1], LAMBDA header :
    IF "milestone_text" \notin Range(header) THEN Unchanged(lines, "skipped")
    ELSE
    Let(HeaderIndex(header, "milestone_text"), LAMBDA milestone_text_idx :
    Let(NewHeader(header, milestone_text_idx), LAMBDA new_header :
    Let(<<new_header>> \o
        [i \in 1..(Len(rows) - 1) |-> DropField(rows[i + 1], milestone_text_idx)],
        LAMBDA new_rows :
    IF p # "rw" THEN Unchanged(lines, "failed")
    ELSE [content  |-> WriteAll(new_rows),
          outcome  |-> "migrated",
          openedW  |-> TRUE,
          returned |-> TRUE])))))

\* ------------------------------------------------------------- file system
\* glob('*-data.csv'): file 0 is notes.csv, files 1, 2, ... are <n>-data.csv
MatchesGlob(f) == f >= 1

SeqsUpTo(S, lo, hi) == UNION {[1..k -> S] : k \in lo..hi}

\* every order in which glob may list the files of S
Orders(S) ==
    {s \in [1..Cardinality(S) -> S] : \A i, j \in DOMAIN s : i # j => s[i] # s[j]}

\* sorted(csv_files)
Sorted(S) ==
    CHOOSE s \in Orders(S) : \A i, j \in DOMAIN s : i < j => s[i] < s[j]

\* The text of a table: "minimal" quotes as csv.writer does, "all" quotes
\* every field.
Styled(rows, style) ==
    [i \in 1..Len(rows) |->
        IF style = "all"
        THEN [j \in 1..Len(rows[i]) |-> [v |-> rows[i][j], q |-> TRUE]]
        ELSE WriteRow(rows[i])]

HeaderNames == {"id", "milestone_text"}
FieldValues == {" ", " a,b "}
BlankLines == {<<>>, <<[v |-> " ", q |-> FALSE]>>}

Headers == SeqsUpTo(HeaderNames, 1, MaxCols)
DataRows == SeqsUpTo(FieldValues, 0, MaxCols)
Tables == {<<h>> \o b : h \in Headers, b \in SeqsUpTo(DataRows, 0, MaxRows)}
Prefixes == SeqsUpTo(BlankLines, 0, MaxBlank)

\* the contents of the file of a one-file directory
SingleContents ==
    Prefixes \cup {p \o Styled(t, "minimal") : p \in Prefixes, t \in Tables}

\* the contents of the files of a directory of several files
ExampleTable ==
    << <<"id", "milestone_text">>, <<" ", " a,b ">>, <<" a,b ", "">> >>
MigratedTable ==
    << <<"id", "milestone_text", "action", "is_milestone">>,
       <<" ", " a,b ", "a,b", "1">> >>
LongRowTable ==
    << <<"id", "milestone_text">>, <<" ", " a,b ">>, <<"", " ", " a,b ">>, <<" a,b ">> >>
MixedCaseTable ==
    << <<"Milestone_Text", "id">>, <<" a,b ", "">>, <<"", " a,b ">> >>

\* a file of a directory of several files: what it holds and its permission
BatchFiles ==
    { [content |-> <<>>, perm |-> "rw"],
      [content |-> Styled(ExampleTable, "minimal"), perm |-> "rw"],
      [content |-> Styled(ExampleTable, "minimal"), perm |-> "r"],
      [content |-> Styled(MixedCaseTable, "all"), perm |-> "none"],
      [content |-> Styled(MixedCaseTable, "all"), perm |-> "rw"],
      [content |-> << <<>> >> \o Styled(MigratedTable, "minimal"), perm |-> "rw"],
      [content |-> Styled(LongRowTable, "all"), perm |-> "rw"] }

\* --------------------------------------------------------------- the state
VARIABLES
    prog,        \* which script is run: "add" or "drop"
    disk,        \* file -> lines
    perm,        \* file -> permission
    run,         \* 1 in the first invocation of the script, 2 in the second
    start,       \* run -> disk at the start of that run
    log,         \* run -> file -> what the run did with the file
    pc,          \* "start", "loop", "done"
    csv_files,   \* the files the loop has still to process
    successful   \* drop-variant: the counter of main

vars == <<prog, disk, perm, run, start, log, pc, csv_files, successful>>

NoLog == [attempts |-> 0, outcome |-> "pending", openedW |-> FALSE, returned |-> FALSE]

InitWith(d, pm) ==
    /\ prog \in {"add", "drop"}
    /\ disk = d
    /\ perm = pm
    /\ run = 1
    /\ start = [r \in {1, 2} |-> d]
    /\ log = [r \in {1, 2} |-> [f \in DOMAIN d |-> NoLog]]
    /\ pc = "start"
    /\ csv_files = <<>>
    /\ successful = 0

\* a directory holding one data file, readable and writable
InitSingle ==
    \E c \in SingleContents : InitWith([f \in {1} |-> c], [f \in {1} |-> "rw"])

\* a directory holding any of the data files 1..MaxFiles and notes.csv
InitBatch ==
    \E present \in SUBSET (0..MaxFiles) :
      \E d \in [present -> BatchFiles] :
        /\ 0 \in present => d[0] = [content |-> Styled(ExampleTable, "minimal"), perm |-> "rw"]
        /\ InitWith([f \in present |-> d[f].content], [f \in present |-> d[f].perm])

Init == InitSingle \/ InitBatch

Logged(r) ==
    [attempts |-> log[run][Head(csv_files)].attempts + 1, outcome |-> r.outcome,
     openedW |-> r.openedW, returned |-> r.returned]

\* ---------------------------------------------- migrate_sessions (add-variant)
\* the loop goes on with the next file whatever happened to this one
RemainingAbort(files, r) == IF r.outcome = "failed" THEN <<>> ELSE Tail(files)
Remaining(files, r) == Tail(files)

AddStart ==
    /\ pc = "start" /\ prog = "add"
    /\ LET found == {f \in DOMAIN disk : MatchesGlob(f)}
       IN  IF found = {}
           THEN pc' = "done" /\ csv_files' = <<>>
           ELSE pc' = "loop" /\ csv_files' \in Orders(found)
    /\ UNCHANGED <<prog, disk, perm, run, start, log, successful>>

AddFile ==
    /\ pc = "loop" /\ prog = "add" /\ csv_files # <<>>
    /\ \E csv_file \in {Head(csv_files)} :
       \E r \in {migrate_sessions_file(disk[csv_file], perm[csv_file])} :
           /\ disk' = [disk EXCEPT ![csv_file] = r.content]
           /\ log' = [log EXCEPT ![run][csv_file] = Logged(r)]
           /\ csv_files' = Remaining(csv_files, r)
    /\ UNCHANGED <<prog, perm, run, start, pc, successful>>

AddFinish ==
    /\ pc = "loop" /\ prog = "add" /\ csv_files = <<>>
    /\ pc' = "done"
    /\ UNCHANGED <<prog, disk, perm, run, start, log, csv_files, successful>>

\* ------------------------------------------------------- main (drop-variant)
DropStart ==
    /\ pc = "start" /\ prog = "drop"
    /\ LET found == {f \in DOMAIN disk : MatchesGlob(f)}
       IN  IF found = {}
           THEN pc' = "done" /\ csv_files' = <<>> /\ UNCHANGED successful
           ELSE pc' = "loop" /\ csv_files' = Sorted(found) /\ successful' = 0
    /\ UNCHANGED <<prog, disk, perm, run, start, log>>

DropFile ==
    /\ pc = "loop" /\ prog = "drop" /\ csv_files # <<>>
    /\ \E csv_file \in {Head(csv_files)} :
       \E r \in {migrate_csv_file(disk[csv_file], perm[csv_file])} :
           /\ disk' = [disk EXCEPT ![csv_file] = r.content]
           /\ log' = [log EXCEPT ![run][csv_file] = Logged(r)]
           /\ successful' = IF r.returned THEN successful + 1 ELSE successful
           /\ csv_files' = Tail(csv_files)
    /\ UNCHANGED <<prog, perm, run, start, pc>>

DropFinish ==
    /\ pc = "loop" /\ prog = "drop" /\ csv_files = <<>>
    /\ pc' = "done"
    /\ UNCHANGED <<prog, disk, perm, run, start, log, csv_files, successful>>

\* the operator runs the same script a second time on the same directory
Rerun ==
    /\ pc = "done" /\ run = 1
    /\ run' = 2
    /\ start' = [start EXCEPT ![2] = disk]
    /\ pc' = "start"
    /\ UNCHANGED <<prog, disk, perm, log, csv_files, successful>>

Step == AddStart \/ AddFile \/ AddFinish \/ DropStart \/ DropFile \/ DropFinish

Next == Step \/ Rerun

Spec == Init /\ [][Next]_vars

\* directories of several files; a started script runs on until it returns
BatchSpec == InitBatch /\ [][Next]_vars /\ WF_vars(Step)

\* ------------------------------------------------------------- properties
Files == DOMAIN disk
In(f) == start[run][f]          \* the file before the current run
Out(f) == disk[f]               \* the file now
Did(f) == log[run][f]           \* what the current run did with the file
Finished(p) == prog = p /\ pc = "done"

\* the table of a file as a reader sees it: the rows from the first
\* non-blank line on, empty lines left out
TableOf(lines) ==
    SelectSeq(ReadAll(clean_csv_file_content(lines).cleaned_lines),
              LAMBDA r : r # <<>>)
HasHeader(lines) == TableOf(lines) # <<>>
DataOf(lines) == Tail(TableOf(lines))

\* s without its element at the 0-based index p
WithoutIndex(s, p) ==
    [j \in 1..(Len(s) - 1) |-> IF j <= p THEN s[j] ELSE s[j + 1]]

\* the 0-based index of the first element of s that satisfies Test
FirstIndex(s, Test(_)) ==
    (CHOOSE i \in 1..Len(s) : Test(s[i]) /\ \A j \in 1..(i - 1) : ~Test(s[j])) - 1

IsMilestoneName(x) == Lower(x) = "milestone_text"

\* action and is_milestone of a data row under a header, as the data model
\* defines them
Derived(header, row) ==
    IF \E i \in 1..Len(header) : IsMilestoneName(header[i])
    THEN LET p == FirstIndex(header, IsMilestoneName)
             x == IF p < Len(row) THEN row[p + 1] ELSE ""
         IN  IF Strip(x) # "" THEN <<Strip(x), "1">> ELSE <<"", "0">>
    ELSE <<"", "0">>

\* C1: add-variant row-count preservation: a migrated file holds one header
\* line and exactly as many data rows as its input had after the header; the
\* input header is never emitted as a data row.
C1_RowCountPreserved ==
    Finished("add") =>
        \A f \in Files :
            Did(f).outcome = "migrated" =>
                /\ Len(Out(f)) = 1 + Len(DataOf(In(f)))
                /\ \A i \in 2..Len(Out(f)) :
                       SubSeq(ReadRow(Out(f)[i]), 1, Len(TableOf(In(f))[1]))
                           # TableOf(In(f))[1]

\* C2: add-variant per-row transform: the output header is the input header
\* followed by action, is_milestone, and the i-th output data row is the i-th
\* input data row followed by its action and is_milestone.
C2_RowTransform ==
    Finished("add") =>
        \A f \in Files :
            Did(f).outcome = "migrated" =>
                LET header == TableOf(In(f))[1]
                    data == DataOf(In(f))
                IN  /\ ReadRow(Out(f)[1]) = header \o <<"action", "is_milestone">>
                    /\ Len(Out(f)) = 1 + Len(data)
                    /\ \A i \in 1..Len(data) :
                           ReadRow(Out(f)[i + 1]) = data[i] \o Derived(header, data[i])

\* C3: drop-variant transform: with milestone_text at index p of the header,
\* the output header is the input header without element p, the output has
\* as many rows as the input in the same order, and each row lost its field
\* at p when it had more than p fields and is unchanged otherwise.
IsMilestoneText(x) == x = "milestone_text"

C3_DropTransform ==
    Finished("drop") =>
        \A f \in Files :
            LET rows == ReadAll(In(f)) IN
            (/\ MatchesGlob(f) /\ perm[f] = "rw" /\ rows # <<>>
             /\ "milestone_text" \in Range(rows[1])) =>
                LET p == FirstIndex(rows[1], IsMilestoneText)
                    out == ReadAll(Out(f))
                IN  /\ Len(out) = Len(rows)
                    /\ out[1] = WithoutIndex(rows[1], p)
                    /\ \A i \in 2..Len(rows) :
                           out[i] = IF Len(rows[i]) > p
                                    THEN WithoutIndex(rows[i], p)
                                    ELSE rows[i]

C3_Witness ==
    /\ Finished("drop") /\ run = 1
    /\ \E f \in Files :
        LET rows == ReadAll(In(f)) IN
        /\ Did(f).returned
        /\ Len(rows) >= 3
        /\ HeaderIndex(rows[1], "milestone_text") >= 1
        /\ \E i, j \in 2..Len(rows) :
              /\ Len(rows[i]) > HeaderIndex(rows[1], "milestone_text")
              /\ Len(rows[j]) <= HeaderIndex(rows[1], "milestone_text")
              /\ Len(rows[j]) >= 1

\* C4: add-variant idempotence: a second run leaves every file exactly as the
\* first run left it, and a file whose header already holds both 'action' and
\* 'is_milestone' is never opened for writing.
C4_AddIdempotent ==
    prog = "add" =>
        /\ (pc = "done" /\ run = 2) => disk = start[2]
        /\ \A f \in Files :
              (/\ HasHeader(In(f))
               /\ {"action", "is_milestone"} \subseteq Range(TableOf(In(f))[1]))
                  => (Out(f) = In(f) /\ ~Did(f).openedW)

C4_Witness ==
    /\ Finished("add") /\ run = 2
    /\ \E f \in Files :
        /\ log[1][f].outcome = "migrated"
        /\ log[2][f].outcome = "skipped"
        /\ Len(disk[f]) >= 3

\* C5: drop-variant idempotence: for a file whose header names are unique, a
\* second run leaves the file exactly as the first run left it and returns
\* False; a file whose header lacks 'milestone_text' is never opened for
\* writing.
UniqueNames(lines) ==
    LET rows == ReadAll(lines)
    IN  rows # <<>> =>
            \A i, j \in 1..Len(rows[1]) : i # j => rows[1][i] # rows[1][j]

C5_DropIdempotent ==
    prog = "drop" =>
        \A f \in Files :
            /\ (pc = "done" /\ run = 2 /\ UniqueNames(start[1][f])) =>
                   (Out(f) = In(f) /\ ~Did(f).returned)
            /\ (ReadAll(In(f)) = <<>> \/ "milestone_text" \notin Range(ReadAll(In(f))[1]))
                   => (Out(f) = In(f) /\ ~Did(f).openedW)

C5_Witness ==
    /\ Finished("drop") /\ run = 2
    /\ \E f \in Files :
        /\ UniqueNames(start[1][f])
        /\ log[1][f].returned
        /\ Did(f).attempts = 1 /\ ~Did(f).returned
        /\ Len(disk[f]) >= 2 /\ Len(disk[f][2]) >= 1

\* C6 as stated: the add-variant leaves a file that starts with N blank lines
\* with the same on-disk content as the same file without those lines.
Stripped(lines) == clean_csv_file_content(lines).cleaned_lines

C6_SameOutputAsStripped ==
    Finished("add") =>
        \A f \in Files :
            (MatchesGlob(f) /\ HasHeader(In(f))) =>
                Out(f) = migrate_sessions_file(Stripped(In(f)), perm[f]).content

\* C6 amended: the add-variant reaches the same outcome on a file with N
\* leading blank lines as on the file without them; when it rewrites the file
\* both end with the same content, and when it does not (already migrated, or
\* an error before the write) the file keeps its own content, blank lines
\* included.
C6_BlankLineTolerance ==
    Finished("add") =>
        \A f \in Files :
            (MatchesGlob(f) /\ HasHeader(In(f))) =>
                LET r == migrate_sessions_file(Stripped(In(f)), perm[f])
                IN  /\ Did(f).outcome = r.outcome
                    /\ Did(f).openedW = r.openedW
                    /\ Out(f) = IF r.openedW THEN r.content ELSE In(f)

C6_Witness ==
    /\ Finished("add")
    /\ \E f \in Files :
        /\ Did(f).outcome = "migrated"
        /\ LeadingEmpty(In(f)) >= 1
        /\ In(f)[1] # <<>>
        /\ Len(DataOf(In(f))) >= 1

\* C7: drop-variant leading-blank-line tolerance: a file made of N >= 1 blank
\* lines followed by a table with a milestone_text column ends with the
\* header and rows the drop-variant gives for the table alone.
C7_DropBlankLineTolerance ==
    Finished("drop") =>
        \A f \in Files :
            (/\ MatchesGlob(f) /\ perm[f] = "rw"
             /\ LeadingEmpty(In(f)) >= 1 /\ HasHeader(In(f))
             /\ "milestone_text" \in Range(TableOf(In(f))[1])) =>
                /\ Did(f).returned
                /\ ReadAll(Out(f))
                       = ReadAll(migrate_csv_file(Stripped(In(f)), "rw").content)

\* C8: batch error isolation: every discovered file is attempted exactly once
\* per run, a file the glob does not match is never touched, the content of
\* each file after the run depends only on that file, the drop-variant's
\* counter is the number of files migrate_csv_file returned True for, and a
\* started batch always runs to its end.
AloneResult(f) ==
    IF prog = "add" THEN migrate_sessions_file(In(f), perm[f])
    ELSE migrate_csv_file(In(f), perm[f])

BatchIsolated ==
    /\ \A f \in Files :
        /\ Did(f).attempts <= 1
        /\ ~MatchesGlob(f) => (Did(f).attempts = 0 /\ Out(f) = In(f))
        /\ (pc = "done" /\ MatchesGlob(f)) =>
               (Did(f).attempts = 1 /\ Out(f) = AloneResult(f).content
                /\ Did(f).outcome = AloneResult(f).outcome)
    /\ (Finished("drop") /\ \E f \in Files : MatchesGlob(f)) =>
           successful = Cardinality({f \in Files : Did(f).returned})

C8_BatchIsolation == []BatchIsolated /\ ((pc = "start") ~> (pc = "done"))

C8_Witness ==
    /\ pc = "done"
    /\ \E f, g \in Files :
        /\ Did(f).outcome = "failed" /\ Did(g).outcome = "migrated"
        /\ prog = "drop" => (f < g /\ successful = 1)

\* C9: add-variant all-or-nothing write: once a file has been processed it
\* either holds its content from before the run or the complete migrated
\* table; a file whose processing ended in the exception handler holds its
\* content from before the run.
C9_AllOrNothing ==
    prog = "add" =>
        \A f \in Files :
            /\ Out(f) = In(f) \/ Did(f).outcome = "migrated"
            /\ Did(f).outcome = "failed" => Out(f) = In(f)

\* C10: add-variant tolerance of row length: whatever the number of fields of
\* its data rows, a readable and writable file that needs the migration is
\* processed without an error and ends up migrated.
C10_RowLengthTolerated ==
    prog = "add" =>
        \A f \in Files :
            (Did(f).attempts = 1 /\ perm[f] = "rw") => Did(f).outcome # "failed"

====
